---- MODULE Spec2Model ----
(***************************************************************************)
(* A model of amc_parse.py's streaming decoder (AntMovieCatalogReader).    *)
(*                                                                         *)
(* Bytes are integers 0..255, a file is a sequence of bytes, and a decoded  *)
(* string is the sequence of its code points.  A reader is a record holding *)
(* the bytes on disk at file_path, the stream handle (fh: open or not, and  *)
(* fpos, the handle's real position) and the attributes position and        *)
(* file_size.  Every method of the reader is an operator from a reader to a *)
(* result [ok, val, rd]: ok = FALSE is a raised exception, rd the reader as *)
(* the call left it.  Optional values are sequences: <<>> is None and <<x>>  *)
(* is a present x.                                                         *)
(***************************************************************************)
EXTENDS Integers, Sequences, FiniteSets, TLC

VARIABLES rd, pc, version, header, props, schema, movies, last, orig

vars == <<rd, pc, version, header, props, schema, movies, last, orig>>

(***************************************************************************)
(* Generic helpers                                                         *)
(***************************************************************************)
Min(a, b) == IF a < b THEN a ELSE b

Max(a, b) == IF a > b THEN a ELSE b

RECURSIVE Flatten(_)
Flatten(ss) == IF ss = <<>> THEN <<>> ELSE Head(ss) \o Flatten(Tail(ss))

Zeros(n) == [i \in 1..n |-> 0]

None == <<>>

Some(x) == <<x>>

(***************************************************************************)
(* Results of a call: a return value, or a raised exception                *)
(***************************************************************************)
Ok(v, r) == [ok |-> TRUE, val |-> v, rd |-> r]

Raise(r) == [ok |-> FALSE, val |-> None, rd |-> r]

(***************************************************************************)
(* Cursor reader                                                           *)
(***************************************************************************)
\* The offset structured reading starts at (self.position = 65; seek(65)).
DataStart == 65

\* The "10MB limit" of read_length_prefixed_string.
MaxStringLength == 10000000

\* The reader as __init__ leaves it, before the header is sniffed.
NewReader(bytes) ==
    [disk |-> bytes, fh |-> FALSE, fpos |-> 0, position |-> 0, file_size |-> 0]

\* _open_file: opens the handle on first use only.
open_file(r) ==
    IF r.fh THEN r
    ELSE [r EXCEPT !.fh = TRUE, !.file_size = Len(r.disk),
                   !.position = DataStart, !.fpos = DataStart]

\* self.file.read(n) for n >= 0: the bytes got (fewer than n at end of file)
\* and the reader with the handle moved past them.
file_read(r, n) ==
    LET Got(got) == [data |-> SubSeq(r.disk, r.fpos + 1, r.fpos + got),
                     rd   |-> [r EXCEPT !.fpos = r.fpos + got]]
    IN  Got(Min(n, Max(0, Len(r.disk) - r.fpos)))

\* struct.unpack("<i", data): four bytes, little-endian, two's complement.
unpack_i32(d) ==
    d[1] + 256 * d[2] + 65536 * d[3]
         + 16777216 * (IF d[4] >= 128 THEN d[4] - 256 ELSE d[4])

\* self.position += n
\* advance without "self.position += n".
advance_nothing(r, n) == r

advance(r, n) == [r EXCEPT !.position = r.position + n]

read_int32_le(r) ==
    LET Got(f) == IF Len(f.data) # 4 THEN Raise(f.rd)
                  ELSE Ok(unpack_i32(f.data), advance(f.rd, 4))
    IN  Got(file_read(open_file(r), 4))

read_bool_byte(r) ==
    LET Got(f) == IF Len(f.data) # 1 THEN Raise(f.rd)
                  ELSE Ok(f.data[1] # 0, advance(f.rd, 1))
    IN  Got(file_read(open_file(r), 1))

\* bytes.decode("latin1"): byte b is the character with code point b.
latin1_decode(d) == [i \in 1..Len(d) |-> d[i]]

\* read_raw_bytes(length), called with length >= 0 only.
read_raw_bytes(r, length) ==
    LET Got(f) == IF Len(f.data) # length THEN Raise(f.rd)
                  ELSE Ok(f.data, advance(f.rd, length))
    IN  Got(file_read(open_file(r), length))

\* read_length_prefixed_string without "if length < 0: raise": file.read of a
\* negative length reads to the end of the file, and the lengths then differ.
read_length_prefixed_string_no_negative_check(r) ==
    LET Body(f, length) ==
            IF Len(f.data) # length THEN Raise(f.rd)
            ELSE Ok(latin1_decode(f.data), advance(f.rd, length))
        Length(l) ==
            IF ~l.ok THEN Raise(l.rd)
            ELSE IF l.val = 0 THEN Ok(<<>>, l.rd)
            ELSE IF l.val > MaxStringLength THEN Raise(l.rd)
            ELSE Body(file_read(open_file(l.rd),
                                IF l.val < 0 THEN Len(l.rd.disk) ELSE l.val), l.val)
    IN  Length(read_int32_le(r))

\* validate is False at every call site, so the printable-ratio branch is
\* never taken.
read_length_prefixed_string(r) ==
    LET Body(f, length) ==
            IF Len(f.data) # length THEN Raise(f.rd)
            ELSE Ok(latin1_decode(f.data), advance(f.rd, length))
        Length(l) ==
            IF ~l.ok THEN Raise(l.rd)
            ELSE IF l.val < 0 THEN Raise(l.rd)
            ELSE IF l.val = 0 THEN Ok(<<>>, l.rd)
            ELSE IF l.val > MaxStringLength THEN Raise(l.rd)
            ELSE Body(file_read(open_file(l.rd), l.val), l.val)
    IN  Length(read_int32_le(r))

\* skip_raw_bytes(length): a relative seek, which may pass the end of file.
skip_raw_bytes(r, length) ==
    LET Opened(o) == Ok(None, [o EXCEPT !.fpos = o.fpos + length,
                                        !.position = o.position + length])
    IN  Opened(open_file(r))

\* close that leaves the handle as it is.
close_nothing(r) == r

\* close: "if self.file: self.file.close(); self.file = None"
close(r) == [r EXCEPT !.fh = FALSE]

(***************************************************************************)
(* Reading a run of primitives in source order                             *)
(***************************************************************************)
\* One primitive read, by the kind of the field.
ReadPrim(r, kind) ==
    CASE kind = "i32"  -> read_int32_le(r)
      [] kind = "bool" -> read_bool_byte(r)
      [] kind = "str"  -> read_length_prefixed_string(r)
      [] kind = "raw4" -> read_raw_bytes(r, 4)

\* A value read for a field named "" is read and not kept.
Store(acc, name, v) == IF name = "" THEN acc ELSE (name :> v) @@ acc

\* The statements "x = self.read_...(...)" for the fields <<name, kind>> of
\* `fields`, in order; the first failing read raises out of the run.
RECURSIVE ReadFields(_, _, _)
ReadFields(r, fields, acc) ==
    LET Got(x, name) ==
            IF ~x.ok THEN Raise(x.rd)
            ELSE ReadFields(x.rd, Tail(fields), Store(acc, name, x.val))
    IN  IF fields = <<>> THEN Ok(acc, r)
        ELSE Got(ReadPrim(r, Head(fields)[2]), Head(fields)[1])

\* "for j in range(n): self.read_length_prefixed_string(...)", values dropped.
RECURSIVE ReadStrings(_, _)
ReadStrings(r, n) ==
    LET Got(x) == IF ~x.ok THEN Raise(x.rd) ELSE ReadStrings(x.rd, n - 1)
    IN  IF n <= 0 THEN Ok(None, r) ELSE Got(read_length_prefixed_string(r))

(***************************************************************************)
(* Header sniffer                                                          *)
(***************************************************************************)
HeaderSize == 100

HeaderTextMax == 64

ReplacementChar == 65533

\* bytes.decode("ascii", errors="replace")
ascii_decode(d) == [i \in 1..Len(d) |-> IF d[i] >= 128 THEN ReplacementChar ELSE d[i]]

\* " AMC_"
Signature == <<32, 65, 77, 67, 95>>

Dot == 46

\* s[a:b] for 0 <= a <= b
Slice(s, a, b) == SubSeq(s, a + 1, Min(b, Len(s)))

startswith(s, p) == Len(s) >= Len(p) /\ SubSeq(s, 1, Len(p)) = p

\* s.find(c) for a single character: the 0-based index of the first c, or -1
find_char(s, c) ==
    IF \E i \in 1..Len(s) : s[i] = c
    THEN (CHOOSE i \in 1..Len(s) : s[i] = c /\ \A j \in 1..(i - 1) : s[j] # c) - 1
    ELSE -1

\* str.isspace for one character of an ASCII-decoded string
IsSpace(c) == c \in {9, 10, 11, 12, 13, 28, 29, 30, 31, 32}

RECURSIVE lstrip(_)
lstrip(s) == IF s # <<>> /\ IsSpace(Head(s)) THEN lstrip(Tail(s)) ELSE s

RECURSIVE rstrip(_)
rstrip(s) ==
    IF s # <<>> /\ IsSpace(s[Len(s)]) THEN rstrip(SubSeq(s, 1, Len(s) - 1)) ELSE s

strip(s) == rstrip(lstrip(s))

\* str.isdigit on an ASCII-decoded string (U+FFFD is no digit)
isdigit(s) == s # <<>> /\ \A i \in 1..Len(s) : s[i] \in 48..57

\* int(s) for a string of ASCII digits
RECURSIVE int_of(_)
int_of(s) ==
    IF s = <<>> THEN 0 ELSE 10 * int_of(SubSeq(s, 1, Len(s) - 1)) + (s[Len(s)] - 48)

\* "major, minor = version_part.split('.', 1)" and what follows it
split_version(version_part, dot) ==
    LET Parts(major, rest) ==
            LET Minor(minor) ==
                    IF isdigit(major) /\ isdigit(minor)
                    THEN int_of(major) * 10 + int_of(minor)
                    ELSE 10
            IN  Minor(IF rest # <<>> THEN <<rest[1]>> ELSE <<48>>)
    IN  Parts(strip(Slice(version_part, 0, dot)),
              Slice(version_part, dot + 1, Len(version_part)))

\* The version read from the decoded 100-character header, which starts with
\* the signature (amc_pos = 0): version_part = header_str[5:10].
header_version(header_str) ==
    LET Part(version_part) ==
            IF find_char(version_part, Dot) < 0 THEN 10
            ELSE split_version(version_part, find_char(version_part, Dot))
    IN  Part(Slice(header_str, 5, 10))

\* self.header: up to the first NUL, or 64 characters, stripped.
header_text(header_str) ==
    LET Upto(null_pos) ==
            strip(IF null_pos > 0 THEN Slice(header_str, 0, null_pos)
                  ELSE Slice(header_str, 0, HeaderTextMax))
    IN  Upto(find_char(header_str, 0))

\* _initialize_version_and_header with "if len(header_data) < 65": a file that
\* reaches the payload is accepted.
initialize_version_and_header_short(bytes) ==
    LET Sniff(header_data, header_str) ==
            IF Len(header_data) < DataStart
            THEN [ok |-> FALSE, version |-> 0, header |-> <<>>]
            ELSE IF ~startswith(header_str, Signature)
            THEN [ok |-> FALSE, version |-> 0, header |-> <<>>]
            ELSE [ok |-> TRUE, version |-> header_version(header_str),
                  header |-> header_text(header_str)]
    IN  Sniff(SubSeq(bytes, 1, Min(HeaderSize, Len(bytes))),
              ascii_decode(SubSeq(bytes, 1, Min(HeaderSize, Len(bytes)))))

\* _initialize_version_and_header with 'if " AMC_" not in header_str'
\* deciding the signature: the signature may stand anywhere in the block.
initialize_version_and_header_anywhere(bytes) ==
    LET Sniff(header_data, header_str) ==
            IF Len(header_data) < HeaderSize
            THEN [ok |-> FALSE, version |-> 0, header |-> <<>>]
            ELSE IF \A i \in 0..(Len(header_str) - Len(Signature)) :
                        Slice(header_str, i, i + Len(Signature)) # Signature
            THEN [ok |-> FALSE, version |-> 0, header |-> <<>>]
            ELSE [ok |-> TRUE, version |-> header_version(header_str),
                  header |-> header_text(header_str)]
    IN  Sniff(SubSeq(bytes, 1, Min(HeaderSize, Len(bytes))),
              ascii_decode(SubSeq(bytes, 1, Min(HeaderSize, Len(bytes)))))

\* _initialize_version_and_header on the bytes at file_path: raises, or
\* returns the version and the header text.
initialize_version_and_header(bytes) ==
    LET Sniff(header_data, header_str) ==
            IF Len(header_data) < HeaderSize
            THEN [ok |-> FALSE, version |-> 0, header |-> <<>>]
            ELSE IF ~startswith(header_str, Signature)
            THEN [ok |-> FALSE, version |-> 0, header |-> <<>>]
            ELSE [ok |-> TRUE, version |-> header_version(header_str),
                  header |-> header_text(header_str)]
    IN  Sniff(SubSeq(bytes, 1, Min(HeaderSize, Len(bytes))),
              ascii_decode(SubSeq(bytes, 1, Min(HeaderSize, Len(bytes)))))

(***************************************************************************)
(* Picture decoder                                                         *)
(***************************************************************************)
\* str.lower on one character of a latin1-decoded string
lower_char(c) ==
    IF c \in 65..90 \/ c \in 192..214 \/ c \in 216..222 THEN c + 32 ELSE c

\* pic_path.split(".")[-1]: what follows the last "."
RECURSIVE last_segment(_)
last_segment(s) ==
    IF find_char(s, Dot) < 0 THEN s
    ELSE last_segment(Slice(s, find_char(s, Dot) + 1, Len(s)))

lower(s) == [i \in 1..Len(s) |-> lower_char(s[i])]

picture_extension(pic_path) ==
    IF pic_path # <<>> /\ find_char(pic_path, Dot) >= 0
    THEN <<Dot>> \o lower(last_segment(pic_path))
    ELSE <<>>

\* read_embedded_movie_picture with "if pic_size >= 0".
read_embedded_movie_picture_ge(r) ==
    LET Data(d, pic_path) ==
            IF ~d.ok THEN Raise(d.rd)
            ELSE Ok(Some([pic_path  |-> pic_path,
                          pic_data  |-> d.val,
                          extension |-> picture_extension(pic_path)]), d.rd)
        Size(z, pic_path) ==
            IF ~z.ok THEN Raise(z.rd)
            ELSE IF z.val >= 0 THEN Data(read_raw_bytes(z.rd, z.val), pic_path)
            ELSE Ok(None, z.rd)
        Path(p) ==
            IF ~p.ok THEN Raise(p.rd) ELSE Size(read_int32_le(p.rd), p.val)
    IN  Path(read_length_prefixed_string(r))

read_embedded_movie_picture(r) ==
    LET Data(d, pic_path) ==
            IF ~d.ok THEN Raise(d.rd)
            ELSE Ok(Some([pic_path  |-> pic_path,
                          pic_data  |-> d.val,
                          extension |-> picture_extension(pic_path)]), d.rd)
        Size(z, pic_path) ==
            IF ~z.ok THEN Raise(z.rd)
            ELSE IF z.val > 0 THEN Data(read_raw_bytes(z.rd, z.val), pic_path)
            ELSE Ok(None, z.rd)
        Path(p) ==
            IF ~p.ok THEN Raise(p.rd) ELSE Size(read_int32_le(p.rd), p.val)
    IN  Path(read_length_prefixed_string(r))

(***************************************************************************)
(* Custom-field schema decoder                                             *)
(***************************************************************************)
\* "ftList"
FtList == <<102, 116, 76, 105, 115, 116>>

\* The reads of one field definition up to its GUI properties, in order.
FieldDefinitionFields(ver) ==
       << <<"field_tag", "str">>, <<"field_name", "str">> >>
    \o (IF ver >= 41 THEN << <<"", "str">> >> ELSE <<>>)      \* field_ext
    \o << <<"field_type", "str">>, <<"default_value", "str">> >>
    \o (IF ver >= 41 THEN << <<"", "str">> >> ELSE <<>>)      \* media_info
    \o << <<"", "bool">> >>                                   \* multi_values
    \o (IF ver >= 41                                          \* sep, rmp, patch
        THEN << <<"", "raw4">>, <<"", "bool">>, <<"", "bool">> >> ELSE <<>>)
    \o << <<"", "bool">>, <<"", "str">> >>       \* excluded, gui_properties

\* The four list flags of version >= 41.
ListFlagFields(ver) ==
    IF ver >= 41
    THEN << <<"", "bool">>, <<"", "bool">>, <<"", "bool">>, <<"", "bool">> >>
    ELSE <<>>

\* The "if field_type == 'ftList'" block.
read_list_values(r, ver) ==
    LET Values(v) ==
            IF ~v.ok THEN Raise(v.rd)
            ELSE ReadFields(v.rd, ListFlagFields(ver), <<>>)
        Count(c) ==
            IF ~c.ok THEN Raise(c.rd) ELSE Values(ReadStrings(c.rd, c.val))
    IN  Count(read_int32_le(r))

\* read_field_definition with "if field_type.lower() == 'ftlist'".
read_field_definition_any_case(r, ver) ==
    LET List(l, fd) == IF ~l.ok THEN Raise(l.rd) ELSE Ok(fd, l.rd)
        Fields(f) ==
            IF ~f.ok THEN Raise(f.rd)
            ELSE IF lower(f.val.field_type) = lower(FtList)
            THEN List(read_list_values(f.rd, ver), f.val)
            ELSE Ok(f.val, f.rd)
    IN  Fields(ReadFields(r, FieldDefinitionFields(ver), <<>>))

\* One pass of the "for i in range(count)" loop body.
read_field_definition(r, ver) ==
    LET List(l, fd) == IF ~l.ok THEN Raise(l.rd) ELSE Ok(fd, l.rd)
        Fields(f) ==
            IF ~f.ok THEN Raise(f.rd)
            ELSE IF f.val.field_type = FtList
            THEN List(read_list_values(f.rd, ver), f.val)
            ELSE Ok(f.val, f.rd)
    IN  Fields(ReadFields(r, FieldDefinitionFields(ver), <<>>))

RECURSIVE ReadFieldDefinitions(_, _, _, _)
ReadFieldDefinitions(r, ver, n, acc) ==
    LET Got(f) ==
            IF ~f.ok THEN Raise(f.rd)
            ELSE ReadFieldDefinitions(f.rd, ver, n - 1, Append(acc, f.val))
    IN  IF n <= 0 THEN Ok(acc, r) ELSE Got(read_field_definition(r, ver))

\* column_settings, gui_properties, custom_fields_count
SchemaHeadFields == << <<"", "str">>, <<"", "str">>, <<"count", "i32">> >>

\* read_custom_field_definitions with a guard on the count, as the string
\* reader has on a length: a negative count raises.
read_custom_field_definitions_guarded(r, ver) ==
    LET Head_(h) ==
            IF ~h.ok THEN Raise(h.rd)
            ELSE IF h.val.count < 0 THEN Raise(h.rd)
            ELSE ReadFieldDefinitions(h.rd, ver, h.val.count, <<>>)
    IN  Head_(ReadFields(r, SchemaHeadFields, <<>>))

read_custom_field_definitions(r, ver) ==
    LET Head_(h) ==
            IF ~h.ok THEN Raise(h.rd)
            ELSE ReadFieldDefinitions(h.rd, ver, h.val.count, <<>>)
    IN  Head_(ReadFields(r, SchemaHeadFields, <<>>))

(***************************************************************************)
(* A dict, in insertion order: a sequence of <<key, value>>                *)
(***************************************************************************)
EmptyDict == <<>>

DictHas(d, k) == \E i \in 1..Len(d) : d[i][1] = k

\* d[k] = v
DictSet(d, k, v) ==
    IF DictHas(d, k)
    THEN [i \in 1..Len(d) |-> IF d[i][1] = k THEN <<k, v>> ELSE d[i]]
    ELSE Append(d, <<k, v>>)

(***************************************************************************)
(* Custom field values and properties                                      *)
(***************************************************************************)
RECURSIVE ReadCustomValues(_, _, _)
ReadCustomValues(r, cfp, acc) ==
    LET Got(x) ==
            IF ~x.ok THEN Raise(x.rd)
            ELSE ReadCustomValues(x.rd, Tail(cfp),
                                  DictSet(acc, Head(cfp).field_tag, x.val))
    IN  IF cfp = <<>> THEN Ok(acc, r) ELSE Got(read_length_prefixed_string(r))

read_movie_custom_field_values(r, cfp) == ReadCustomValues(r, cfp, EmptyDict)

\* PropertiesFields without "if version < 35": the ICQ string is always read.
PropertiesFields_always_icq(ver) ==
    << <<"owner_name", "str">>, <<"owner_mail", "str">>, <<"", "str">>,
       <<"owner_site", "str">>, <<"description", "str">> >>

PropertiesFields(ver) ==
       << <<"owner_name", "str">>, <<"owner_mail", "str">> >>
    \o (IF ver < 35 THEN << <<"", "str">> >> ELSE <<>>)       \* icq
    \o << <<"owner_site", "str">>, <<"description", "str">> >>

\* read_movie_properties inside "try: ... except Exception: return {}".
read_movie_properties_lenient(r, ver) ==
    LET Got(f) == IF f.ok THEN f ELSE Ok(<<>>, f.rd)
    IN  Got(ReadFields(r, PropertiesFields(ver), <<>>))

read_movie_properties(r, ver) == ReadFields(r, PropertiesFields(ver), <<>>)

(***************************************************************************)
(* Extras decoder                                                          *)
(***************************************************************************)
\* The plausible range of an extras count.
MaxExtrasCount == 1000

ExtraFields ==
    << <<"checked", "bool">>, <<"tag", "str">>, <<"title", "str">>,
       <<"category", "str">>, <<"url", "str">>, <<"description", "str">>,
       <<"comments", "str">>, <<"created_by", "str">> >>

\* One pass of the "for i in range(extras_count)" loop body.
read_extra(r) ==
    LET Pic(p, x) ==
            IF ~p.ok THEN Raise(p.rd) ELSE Ok(("picture" :> p.val) @@ x, p.rd)
        Fields(f) ==
            IF ~f.ok THEN Raise(f.rd)
            ELSE Pic(read_embedded_movie_picture(f.rd), f.val)
    IN  Fields(ReadFields(r, ExtraFields, <<>>))

\* What read_movie_extras hands back: it never raises; err records that an
\* exception was caught inside it.
Extras(val, r, err) == [val |-> val, rd |-> r, err |-> err]

\* The loop inside the try: an exception ends it, and the extras appended so
\* far are what the method returns.
RECURSIVE ReadExtras(_, _, _)
ReadExtras(r, n, acc) ==
    LET Got(e) ==
            IF ~e.ok THEN Extras(acc, e.rd, TRUE)
            ELSE ReadExtras(e.rd, n - 1, Append(acc, e.val))
    IN  IF n <= 0 THEN Extras(acc, r, FALSE) ELSE Got(read_extra(r))

\* read_movie_extras with "extras_count > 1001".
read_movie_extras_off_by_one(r) ==
    LET Count(c) ==
            IF ~c.ok THEN Extras(<<>>, c.rd, TRUE)
            ELSE IF c.val < 0 \/ c.val > MaxExtrasCount + 1
            THEN Extras(<<>>, c.rd, FALSE)
            ELSE ReadExtras(c.rd, c.val, <<>>)
    IN  Count(read_int32_le(r))

read_movie_extras(r) ==
    LET Count(c) ==
            IF ~c.ok THEN Extras(<<>>, c.rd, TRUE)
            ELSE IF c.val < 0 \/ c.val > MaxExtrasCount
            THEN Extras(<<>>, c.rd, FALSE)
            ELSE ReadExtras(c.rd, c.val, <<>>)
    IN  Count(read_int32_le(r))

\* MovieFields with "if version >= 35" before media_type and source.
MovieFields_source_from_35(ver) ==
       << <<"number", "i32">>, <<"date_added", "i32">> >>
    \o (IF ver >= 42
        THEN << <<"date_watched", "i32">>, <<"user_rating", "i32">> >> ELSE <<>>)
    \o << <<"rating", "i32">>, <<"year", "i32">>, <<"length", "i32">>,
          <<"video_bitrate", "i32">>, <<"audio_bitrate", "i32">>,
          <<"disks", "i32">> >>
    \o (IF ver >= 41 THEN << <<"color_tag", "i32">> >> ELSE <<>>)
    \o << <<"checked", "bool">>, <<"media", "str">> >>
    \o (IF ver >= 35
        THEN << <<"media_type", "str">>, <<"source", "str">> >> ELSE <<>>)
    \o << <<"borrower", "str">>, <<"original_title", "str">>,
          <<"translated_title", "str">>, <<"director", "str">>,
          <<"producer", "str">> >>
    \o (IF ver >= 42
        THEN << <<"writer", "str">>, <<"composer", "str">> >> ELSE <<>>)
    \o << <<"country", "str">>, <<"category", "str">> >>
    \o (IF ver >= 42 THEN << <<"certification", "str">> >> ELSE <<>>)
    \o << <<"actors", "str">>, <<"url", "str">>, <<"description", "str">>,
          <<"comments", "str">> >>
    \o (IF ver >= 42 THEN << <<"file_path", "str">> >> ELSE <<>>)
    \o << <<"video_format", "str">>, <<"audio_format", "str">>,
          <<"resolution", "str">>, <<"framerate", "str">>,
          <<"languages", "str">>, <<"subtitles", "str">>, <<"size", "str">> >>

(***************************************************************************)
(* Movie record decoder                                                    *)
(***************************************************************************)
\* The scalar and string reads of read_movie_sequential, in source order.
MovieFields(ver) ==
       << <<"number", "i32">>, <<"date_added", "i32">> >>
    \o (IF ver >= 42
        THEN << <<"date_watched", "i32">>, <<"user_rating", "i32">> >> ELSE <<>>)
    \o << <<"rating", "i32">>, <<"year", "i32">>, <<"length", "i32">>,
          <<"video_bitrate", "i32">>, <<"audio_bitrate", "i32">>,
          <<"disks", "i32">> >>
    \o (IF ver >= 41 THEN << <<"color_tag", "i32">> >> ELSE <<>>)
    \o << <<"checked", "bool">>, <<"media", "str">> >>
    \o (IF ver >= 33
        THEN << <<"media_type", "str">>, <<"source", "str">> >> ELSE <<>>)
    \o << <<"borrower", "str">>, <<"original_title", "str">>,
          <<"translated_title", "str">>, <<"director", "str">>,
          <<"producer", "str">> >>
    \o (IF ver >= 42
        THEN << <<"writer", "str">>, <<"composer", "str">> >> ELSE <<>>)
    \o << <<"country", "str">>, <<"category", "str">> >>
    \o (IF ver >= 42 THEN << <<"certification", "str">> >> ELSE <<>>)
    \o << <<"actors", "str">>, <<"url", "str">>, <<"description", "str">>,
          <<"comments", "str">> >>
    \o (IF ver >= 42 THEN << <<"file_path", "str">> >> ELSE <<>>)
    \o << <<"video_format", "str">>, <<"audio_format", "str">>,
          <<"resolution", "str">>, <<"framerate", "str">>,
          <<"languages", "str">>, <<"subtitles", "str">>, <<"size", "str">> >>

\* What the version-gated fields hold when their gate is closed.
MovieDefaults ==
    [date_watched |-> 0, user_rating |-> 0, color_tag |-> 0,
     media_type |-> <<>>, source |-> <<>>, writer |-> <<>>, composer |-> <<>>,
     certification |-> <<>>, file_path |-> <<>>]

ColorTagCount == 13

\* scale_rating without "and rating != -1".
scale_rating_unconditional(ver, rating) == IF ver < 35 THEN rating * 10 ELSE rating

\* "if version < 35 and rating != -1: rating = rating * 10"
scale_rating(ver, rating) == IF ver < 35 /\ rating # -1 THEN rating * 10 ELSE rating

\* normalize_color_tag with a remainder that keeps the sign of the value, as
\* C's % does.
normalize_color_tag_truncating(ver, color_tag) ==
    IF ver < 41 THEN color_tag
    ELSE IF color_tag < 0 THEN 0 - ((0 - color_tag) % ColorTagCount)
    ELSE color_tag % ColorTagCount

\* "color_tag = color_tag % 13", on the value read when version >= 41
normalize_color_tag(ver, color_tag) ==
    IF ver >= 41 THEN color_tag % ColorTagCount ELSE color_tag

\* The CatalogMovie built at the end of the try block.
make_movie(ver, f, picture, custom_fields, extras) ==
    [f EXCEPT !.rating = scale_rating(ver, f.rating),
              !.color_tag = normalize_color_tag(ver, f.color_tag)]
    @@ [picture |-> picture, custom_fields |-> custom_fields, extras |-> extras]

\* What read_movie_sequential hands back: it never raises; val is None or
\* Some(movie), and err records that a primitive read failed inside the call.
Decoded(val, r, err) == [val |-> val, rd |-> r, err |-> err]

read_movie_sequential(r, ver, cfp) ==
    LET Tail_(e, f, p, c) ==
            Decoded(Some(make_movie(ver, f, p, c, e.val)), e.rd, e.err)
        Custom(c, f, p) ==
            IF ~c.ok THEN Decoded(None, c.rd, TRUE)
            ELSE Tail_(IF ver >= 42 THEN read_movie_extras(c.rd)
                       ELSE Extras(<<>>, c.rd, FALSE),
                       f, p, c.val)
        Pic(p, f) ==
            IF ~p.ok THEN Decoded(None, p.rd, TRUE)
            ELSE Custom(IF ver >= 40 /\ cfp # <<>>
                        THEN read_movie_custom_field_values(p.rd, cfp)
                        ELSE Ok(EmptyDict, p.rd),
                        f, p.val)
        Fields(f) ==
            IF ~f.ok THEN Decoded(None, f.rd, TRUE)
            ELSE Pic(read_embedded_movie_picture(f.rd), f.val)
    IN  Fields(ReadFields(r, MovieFields(ver), MovieDefaults))

(***************************************************************************)
(* Catalog decoder                                                         *)
(***************************************************************************)
\* movie_loop_step with "movies.append(movie)" ahead of "if movie is None".
movie_loop_step_append_first(r, ver, cfp, ms) ==
    LET Got(m) ==
            [movies |-> Append(ms, IF m.val = None THEN None ELSE m.val[1]),
             stop   |-> m.val = None,
             rd     |-> m.rd,
             err    |-> m.err]
    IN  Got(read_movie_sequential(r, ver, cfp))

\* One pass of the "while self.position < self.file_size" loop body:
\* the movie list, whether the loop breaks, the reader.
movie_loop_step(r, ver, cfp, ms) ==
    LET Got(m) ==
            [movies |-> IF m.val = None THEN ms ELSE Append(ms, m.val[1]),
             stop   |-> m.val = None,
             rd     |-> m.rd,
             err    |-> m.err]
    IN  Got(read_movie_sequential(r, ver, cfp))

\* loop_condition with "while self.position <= self.file_size".
loop_condition_le(r) == r.position <= r.file_size

loop_condition(r) == r.position < r.file_size

RECURSIVE MovieLoop(_, _, _, _)
MovieLoop(r, ver, cfp, ms) ==
    LET Got(s) ==
            IF s.stop THEN Ok(s.movies, s.rd)
            ELSE MovieLoop(s.rd, ver, cfp, s.movies)
    IN  IF ~loop_condition(r) THEN Ok(ms, r)
        ELSE Got(movie_loop_step(r, ver, cfp, ms))

read_all_movies_sequential(r, ver, cfp) == MovieLoop(r, ver, cfp, <<>>)

\* read_full_catalog_sequential on a constructed reader: raises, or returns
\* the catalog.
read_full_catalog_sequential(r, ver, hdr) ==
    LET Movies(m, cfp) ==
            Ok([version |-> ver, header |-> hdr,
                custom_fields_properties |-> cfp, movies |-> m.val], m.rd)
        Schema(c) ==
            IF ~c.ok THEN Raise(c.rd)
            ELSE Movies(read_all_movies_sequential(c.rd, ver, c.val), c.val)
        Properties(p) ==
            IF ~p.ok THEN Raise(p.rd)
            ELSE Schema(IF ver >= 40 THEN read_custom_field_definitions(p.rd, ver)
                        ELSE Ok(<<>>, p.rd))
    IN  Properties(read_movie_properties(r, ver))

\* AntMovieCatalogReader(path).read_full_catalog_sequential() on the bytes at
\* path: raises (from the constructor or the decode), or returns the catalog.
parse_amc_file_optimized(bytes) ==
    LET Sniffed(h) ==
            IF ~h.ok THEN Raise(NewReader(bytes))
            ELSE read_full_catalog_sequential(NewReader(bytes), h.version, h.header)
    IN  Sniffed(initialize_version_and_header(bytes))

(***************************************************************************)
(* Input files: the writer's side of the layouts above                     *)
(***************************************************************************)
\* struct.pack("<i", v)
EncI32(v) ==
    <<v % 256, (v \div 256) % 256, (v \div 65536) % 256, (v \div 16777216) % 256>>

EncStr(str) == EncI32(Len(str)) \o str

\* A field the reader drops is written as zero / empty.
EncField(f, rec) ==
    LET kind == f[2]
        name == f[1]
    IN  CASE kind = "i32"  -> EncI32(IF name = "" THEN 0 ELSE rec[name])
          [] kind = "bool" -> <<IF name # "" /\ rec[name] THEN 1 ELSE 0>>
          [] kind = "str"  -> EncStr(IF name = "" THEN <<>> ELSE rec[name])
          [] kind = "raw4" -> Zeros(4)

EncFields(fields, rec) == Flatten([i \in 1..Len(fields) |-> EncField(fields[i], rec)])

EncPicture(pic_path, pic_data) == EncStr(pic_path) \o EncI32(Len(pic_data)) \o pic_data

EncExtra(x) == EncFields(ExtraFields, x) \o EncPicture(x.pic_path, x.pic_data)

EncFieldDefinition(ver, fd) ==
       EncFields(FieldDefinitionFields(ver), fd)
    \o (IF fd.field_type = FtList
        THEN    EncI32(Len(fd.list_values))
             \o Flatten([i \in 1..Len(fd.list_values) |-> EncStr(fd.list_values[i])])
             \o EncFields(ListFlagFields(ver), <<>>)
        ELSE <<>>)

EncSchema(ver, fds) ==
       EncStr(<<>>) \o EncStr(<<>>) \o EncI32(Len(fds))
    \o Flatten([i \in 1..Len(fds) |-> EncFieldDefinition(ver, fds[i])])

\* A movie record.  extras_count and extras_tail are written as given, so
\* that a record may carry a count its extras do not match.
EncMovie(ver, nfields, m) ==
       EncFields(MovieFields(ver), m)
    \o EncPicture(m.pic_path, m.pic_data)
    \o (IF ver >= 40
        THEN Flatten([i \in 1..nfields |-> EncStr(<<48 + i, 48 + (m.number % 10)>>)])
        ELSE <<>>)
    \o (IF ver >= 42
        THEN    EncI32(m.extras_count)
             \o Flatten([i \in 1..Len(m.extras) |-> EncExtra(m.extras[i])])
             \o m.extras_tail
        ELSE <<>>)

\* The header block up to the payload: " AMC_" and the version text, NUL padded.
EncHeader(vtext) == Signature \o vtext \o Zeros(DataStart - Len(Signature) - Len(vtext))

\* A file shorter than the header block is padded to it.
PadTo(bytes, n, b) == bytes \o [i \in 1..(n - Len(bytes)) |-> b]

EncFile(vtext, ver, owner, fds, ms, pad) ==
    PadTo(   EncHeader(vtext)
          \o EncFields(PropertiesFields(ver),
                       [owner_name |-> owner, owner_mail |-> <<>>,
                        owner_site |-> <<>>, description |-> <<>>])
          \o (IF ver >= 40 THEN EncSchema(ver, fds) ELSE <<>>)
          \o Flatten([i \in 1..Len(ms) |-> EncMovie(ver, Len(fds), ms[i])]),
          HeaderSize, pad)

(***************************************************************************)
(* The inputs the model draws from                                         *)
(***************************************************************************)
\* Movies per generated file.
MaxMovies == 2

\* Bytes the raw-read and skip steps of the cursor specification ask for.
MaxRaw == 3

\* "A", "B", "p.JPG"
StrA == <<65>>

StrB == <<66>>

StrPath == <<112, 46, 74, 80, 71>>

BlankExtra ==
    [checked |-> FALSE, tag |-> <<>>, title |-> <<>>, category |-> <<>>,
     url |-> <<>>, description |-> <<>>, comments |-> <<>>,
     created_by |-> <<>>, pic_path |-> <<>>, pic_data |-> <<>>]

BlankMovie ==
    [number |-> 0, date_added |-> 0, date_watched |-> 0, user_rating |-> 0,
     rating |-> -1, year |-> 0, length |-> 0, video_bitrate |-> 0,
     audio_bitrate |-> 0, disks |-> 0, color_tag |-> 0, checked |-> FALSE,
     media |-> <<>>, media_type |-> <<>>, source |-> <<>>, borrower |-> <<>>,
     original_title |-> <<>>, translated_title |-> <<>>, director |-> <<>>,
     producer |-> <<>>, writer |-> <<>>, composer |-> <<>>, country |-> <<>>,
     category |-> <<>>, certification |-> <<>>, actors |-> <<>>, url |-> <<>>,
     description |-> <<>>, comments |-> <<>>, file_path |-> <<>>,
     video_format |-> <<>>, audio_format |-> <<>>, resolution |-> <<>>,
     framerate |-> <<>>, languages |-> <<>>, subtitles |-> <<>>, size |-> <<>>,
     pic_path |-> <<>>, pic_data |-> <<>>,
     extras_count |-> 0, extras |-> <<>>, extras_tail |-> <<>>]

\* A movie with a picture, one extra with a picture, a negative colour tag.
RichMovie(i) ==
    [BlankMovie EXCEPT !.number = i, !.rating = 7, !.user_rating = 5,
                       !.color_tag = -1 - i, !.checked = TRUE,
                       !.original_title = StrA, !.source = StrB,
                       !.writer = StrB, !.file_path = StrPath,
                       !.pic_path = StrPath, !.pic_data = <<1, 2>>,
                       !.extras_count = 1,
                       !.extras = <<[BlankExtra EXCEPT !.checked = TRUE,
                                                      !.title = StrB,
                                                      !.pic_path = StrA,
                                                      !.pic_data = <<9>>]>>]

PlainMovie(i) == [BlankMovie EXCEPT !.number = i, !.rating = -1, !.color_tag = 12 + i]

\* An extras count out of range, nothing after it.
BadCountMovie(i, count) ==
    [BlankMovie EXCEPT !.number = i, !.rating = 3, !.extras_count = count]

\* One extra announced whose tag has the length -1.
BadExtraMovie(i) ==
    [BlankMovie EXCEPT !.number = i, !.extras_count = 1,
                       !.extras_tail = <<0>> \o EncI32(-1)]

\* The i-th movie of a file, by the file's roster.
RosterMovie(roster, i) ==
    CASE roster = "rich"     -> IF i % 2 = 1 THEN RichMovie(i) ELSE PlainMovie(i)
      [] roster = "plain"    -> IF i % 2 = 1 THEN PlainMovie(i) ELSE RichMovie(i)
      [] roster = "count-1"  -> IF i = 1 THEN BadCountMovie(i, -1) ELSE PlainMovie(i)
      [] roster = "count1001" ->
            IF i = 1 THEN BadCountMovie(i, MaxExtrasCount + 1) ELSE RichMovie(i)
      [] roster = "badextra" -> IF i = 1 THEN BadExtraMovie(i) ELSE PlainMovie(i)

WellFormedRosters == {"rich", "plain"}

FieldTemplate(tag, type, values) ==
    [field_tag |-> tag, field_name |-> tag \o tag, field_type |-> type,
     default_value |-> <<100>>, list_values |-> values]

\* "s"
FtString == <<115>>

SchemaTemplate(name) ==
    CASE name = "none" -> <<>>
      [] name = "ab"   -> <<FieldTemplate(StrA, FtString, <<>>),
                            FieldTemplate(StrB, FtString, <<>>)>>
      [] name = "aa"   -> <<FieldTemplate(StrA, FtString, <<>>),
                            FieldTemplate(StrA, FtString, <<>>)>>
      [] name = "list" -> <<FieldTemplate(StrA, FtList, <<StrA, StrB>>),
                            FieldTemplate(StrB, FtString, <<>>)>>
      [] name = "lists" -> <<FieldTemplate(StrA, lower(FtList), <<>>),
                             FieldTemplate(StrB, FtList, <<StrA>>),
                             FieldTemplate(StrPath, FtList, <<>>)>>

\* The digit d as a character
Digit(d) == 48 + d

\* Catalogs: version text, the version it stands for, schema, roster.
Scenarios ==
    { [vtext |-> <<Digit(3), Dot, Digit(2)>>, ver |-> 32, schema |-> "none", roster |-> "rich"],
      [vtext |-> <<Digit(3), Dot, Digit(4)>>, ver |-> 34, schema |-> "none", roster |-> "plain"],
      [vtext |-> <<Digit(3), Dot, Digit(5)>>, ver |-> 35, schema |-> "none", roster |-> "rich"],
      [vtext |-> <<Digit(4), Dot, Digit(0)>>, ver |-> 40, schema |-> "none", roster |-> "plain"],
      [vtext |-> <<Digit(4), Dot, Digit(0)>>, ver |-> 40, schema |-> "aa", roster |-> "rich"],
      [vtext |-> <<Digit(4), Dot, Digit(1)>>, ver |-> 41, schema |-> "list", roster |-> "rich"],
      [vtext |-> <<Digit(4), Dot, Digit(2)>>, ver |-> 42, schema |-> "ab", roster |-> "rich"],
      [vtext |-> <<Digit(4), Dot, Digit(2)>>, ver |-> 42, schema |-> "none", roster |-> "plain"],
      [vtext |-> <<Digit(4), Dot, Digit(2)>>, ver |-> 42, schema |-> "aa", roster |-> "count-1"],
      [vtext |-> <<Digit(4), Dot, Digit(2)>>, ver |-> 42, schema |-> "none", roster |-> "count1001"],
      [vtext |-> <<Digit(4), Dot, Digit(2)>>, ver |-> 42, schema |-> "none", roster |-> "badextra"] }

PadBytes == {0, 255}

ScenarioFile(sc, n, pad) ==
    EncFile(sc.vtext, sc.ver, StrA, SchemaTemplate(sc.schema),
            [i \in 1..n |-> RosterMovie(sc.roster, i)], pad)

\* Version texts for the header sniffer: majors of one to five digits, a
\* missing minor, a missing dot, a non-digit, a padded major.
HeaderTexts ==
    { <<Digit(4), Dot, Digit(0)>>,
      <<Digit(4), Dot, Digit(2), Digit(7)>>,
      <<Digit(1), Digit(2), Dot, Digit(3)>>,
      <<Digit(1), Digit(2), Digit(3), Dot, Digit(4), Digit(5)>>,
      <<Digit(1), Digit(2), Digit(3), Digit(4), Dot, Digit(5)>>,
      <<Digit(1), Digit(2), Digit(3), Digit(4), Digit(5), Dot, Digit(6)>>,
      <<Digit(4), Dot>>,
      <<Digit(4), Digit(2)>>,
      <<Digit(4), Dot, 120>>,
      <<120, Dot, Digit(2)>>,
      <<32, Digit(4), Dot, Digit(2)>>,
      <<Dot, Digit(5)>>,
      <<>> }

\* Empty properties and an empty schema (version >= 40): four empty strings,
\* two empty strings and a count of 0.
EmptyPayload ==
       EncFields(PropertiesFields(40),
                 [owner_name |-> <<>>, owner_mail |-> <<>>,
                  owner_site |-> <<>>, description |-> <<>>])
    \o EncSchema(40, <<>>)

\* A header block whose payload is empty properties and an empty schema; the
\* rest of the block holds the byte `pad`.
HeaderFile(vtext, pad) ==
    PadTo(EncHeader(vtext) \o EmptyPayload, HeaderSize, pad)

\* The same payload straight after the 65 bytes of header text, and nothing
\* after it: the file ends where the first movie record would start.
BareFile(vtext) == EncHeader(vtext) \o EmptyPayload

\* The header block without the signature.
NoSignatureFile == Zeros(HeaderSize)

\* The signature one byte late: " AMC_" is in the block, not at its start.
LateSignatureFile == <<0>> \o SubSeq(HeaderFile(<<Digit(4), Dot, Digit(2)>>, 0), 1, HeaderSize - 1)

\* A file with no movie whose property strings all differ: "A", "B", (for
\* version < 35) "p.JPG", "AB", "BA".
OwnerFile(vtext, ver) ==
    PadTo(   EncHeader(vtext)
          \o EncStr(StrA) \o EncStr(StrB)
          \o (IF ver < 35 THEN EncStr(StrPath) ELSE <<>>)
          \o EncStr(StrA \o StrB) \o EncStr(StrB \o StrA)
          \o (IF ver >= 40 THEN EncSchema(ver, <<>>) ELSE <<>>),
          HeaderSize, 0)

OwnerFiles ==
    { [vtext |-> <<Digit(3), Dot, Digit(2)>>, ver |-> 32],
      [vtext |-> <<Digit(3), Dot, Digit(5)>>, ver |-> 35],
      [vtext |-> <<Digit(4), Dot, Digit(2)>>, ver |-> 42] }

\* Catalogs of one movie whose schema has a field of type "ftlist", a list
\* of one value and an empty list, with and without the flags of version 41.
ListScenarios ==
    { [vtext |-> <<Digit(4), Dot, Digit(0)>>, ver |-> 40, schema |-> "lists", roster |-> "rich"],
      [vtext |-> <<Digit(4), Dot, Digit(1)>>, ver |-> 41, schema |-> "lists", roster |-> "rich"] }

\* A version 4.2 file whose owner mail has the length -1, and one whose
\* first field definition has a name longer than the limit; a well-formed
\* movie record follows in both.
CorruptFiles ==
    {    EncHeader(<<Digit(4), Dot, Digit(2)>>)
      \o EncStr(StrA) \o EncI32(-1) \o EncStr(<<>>) \o EncStr(<<>>)
      \o EncSchema(42, <<>>)
      \o EncMovie(42, 0, PlainMovie(1)),
         EncHeader(<<Digit(4), Dot, Digit(2)>>)
      \o EncStr(StrA) \o EncStr(<<>>) \o EncStr(<<>>) \o EncStr(<<>>)
      \o EncStr(<<>>) \o EncStr(<<>>) \o EncI32(1)
      \o EncStr(StrA) \o EncI32(MaxStringLength + 1)
      \o EncMovie(42, 0, PlainMovie(1)) }

\* The payload up to the field count of the schema: empty properties (of a
\* version >= 35), two empty strings, and the count as given.
CountHead(vtext, count) ==
       EncHeader(vtext)
    \o EncStr(<<>>) \o EncStr(<<>>) \o EncStr(<<>>) \o EncStr(<<>>)
    \o EncStr(<<>>) \o EncStr(<<>>) \o EncI32(count)

\* One field "A" of type "ftList" whose list-value count is written as
\* given, followed by no value and by the list flags.
CountedList(ver, count) ==
       EncFields(FieldDefinitionFields(ver), FieldTemplate(StrA, FtList, <<>>))
    \o EncI32(count)
    \o EncFields(ListFlagFields(ver), <<>>)

\* Counts "range(count)" takes for zero, and counts past the extras limit.
NegativeCounts == {-1, -2147483647 - 1}

ManyCount == MaxExtrasCount + 1

\* Files whose schema count or list-value count is negative, or larger than
\* the extras limit while no field or value is there; a well-formed movie
\* record follows the schema.
CountFiles ==
         { CountHead(<<Digit(4), Dot, Digit(2)>>, c) \o EncMovie(42, 0, PlainMovie(1)) :
             c \in NegativeCounts \cup {ManyCount} }
    \cup { CountHead(vv.vtext, 1) \o CountedList(vv.ver, c)
             \o EncMovie(vv.ver, 1, PlainMovie(1)) :
             vv \in { [vtext |-> <<Digit(4), Dot, Digit(0)>>, ver |-> 40],
                      [vtext |-> <<Digit(4), Dot, Digit(1)>>, ver |-> 41] },
             c \in NegativeCounts \cup {ManyCount} }

(***************************************************************************)
(* The decode as a state machine                                           *)
(*                                                                         *)
(* rd      the reader (disk: the bytes at file_path)                       *)
(* pc      start -> header -> props -> movies -> done, or fatal            *)
(* version, header, props, schema, movies: what the decode has produced    *)
(* last    the last step taken: its name, its argument, the reader before  *)
(*         it, whether it returned a value (ok), the value, whether a read *)
(*         failed in it                                                    *)
(*         after the "with" block is left pc is returned (a catalog) or    *)
(*         failed (an exception)                                           *)
(* orig    the input: the file as written, and how many of its last bytes  *)
(*         were removed to get rd.disk                                     *)
(***************************************************************************)
Step(op, pre, ok, val, err) ==
    [op |-> op, arg |-> 0, pre |-> pre, ok |-> ok, val |-> val, err |-> err]

NoStep == Step("none", NewReader(<<>>), TRUE, None, FALSE)

InitWith(bytes, full, cut, valid, vtext, start) ==
    /\ rd = NewReader(bytes)
    /\ pc = start
    /\ version = 0
    /\ header = <<>>
    /\ props = <<>>
    /\ schema = <<>>
    /\ movies = <<>>
    /\ last = NoStep
    /\ orig = [bytes |-> full, cut |-> cut, valid |-> valid, vtext |-> vtext]

Init ==
    \/ \E sc \in Scenarios, n \in 0..MaxMovies, pad \in PadBytes :
          LET full  == ScenarioFile(sc, n, pad)
              valid == sc.roster \in WellFormedRosters
          IN  \E k \in 0..(IF valid THEN Len(full) ELSE 0) :
                 InitWith(SubSeq(full, 1, Len(full) - k), full, k, valid,
                          sc.vtext, "start")
    \/ \E t \in HeaderTexts, pad \in PadBytes :
          InitWith(HeaderFile(t, pad), HeaderFile(t, pad), 0, FALSE, t, "start")
    \/ \E t \in HeaderTexts :
          InitWith(BareFile(t), BareFile(t), 0, FALSE, t, "start")
    \/ InitWith(NoSignatureFile, NoSignatureFile, 0, FALSE, <<>>, "start")
    \/ InitWith(LateSignatureFile, LateSignatureFile, 0, FALSE, <<>>, "start")
    \/ \E f \in CorruptFiles :
          InitWith(f, f, 0, FALSE, <<Digit(4), Dot, Digit(2)>>, "start")
    \/ \E o \in OwnerFiles :
          InitWith(OwnerFile(o.vtext, o.ver), OwnerFile(o.vtext, o.ver), 0,
                   FALSE, o.vtext, "start")
    \/ \E sc \in ListScenarios :
          InitWith(ScenarioFile(sc, 1, 0), ScenarioFile(sc, 1, 0), 0, FALSE,
                   sc.vtext, "start")
    \/ \E f \in CountFiles :
          InitWith(f, f, 0, FALSE, SubSeq(f, Len(Signature) + 1, Len(Signature) + 3),
                   "start")

\* AntMovieCatalogReader(file_path): __init__ sniffs the header.
Construct ==
    /\ pc = "start"
    /\ LET h == initialize_version_and_header(rd.disk)
       IN  /\ pc' = IF h.ok THEN "header" ELSE "fatal"
           /\ version' = h.version
           /\ header' = h.header
           /\ last' = Step("construct", rd, h.ok, None, ~h.ok)
    /\ UNCHANGED <<rd, props, schema, movies, orig>>

\* read_full_catalog_sequential, first statement: the properties.
ReadProperties ==
    /\ pc = "header"
    /\ LET p == read_movie_properties(rd, version)
       IN  /\ rd' = p.rd
           /\ props' = p.val
           /\ pc' = IF p.ok THEN "props" ELSE "fatal"
           /\ last' = Step("properties", rd, p.ok, None, ~p.ok)
    /\ UNCHANGED <<version, header, schema, movies, orig>>

\* "if self.version >= 40: custom_fields_properties = ..."
ReadSchema ==
    /\ pc = "props"
    /\ version >= 40
    /\ LET c == read_custom_field_definitions(rd, version)
       IN  /\ rd' = c.rd
           /\ schema' = c.val
           /\ pc' = IF c.ok THEN "movies" ELSE "fatal"
           /\ last' = Step("schema", rd, c.ok, None, ~c.ok)
    /\ UNCHANGED <<version, header, props, movies, orig>>

\* version < 40: custom_fields_properties stays [].
SkipSchema ==
    /\ pc = "props"
    /\ version < 40
    /\ pc' = "movies"
    /\ last' = Step("noschema", rd, TRUE, None, FALSE)
    /\ UNCHANGED <<rd, version, header, props, schema, movies, orig>>

\* One pass of the movie loop: a record is appended, or the loop breaks and
\* the catalog is returned.
ReadMovie ==
    /\ pc = "movies"
    /\ loop_condition(rd)
    /\ LET s == movie_loop_step(rd, version, schema, movies)
       IN  /\ rd' = s.rd
           /\ movies' = s.movies
           /\ pc' = IF s.stop THEN "done" ELSE "movies"
           /\ last' = Step("movie", rd, ~s.stop,
                           IF s.stop THEN None ELSE Some(s.movies[Len(s.movies)]),
                           s.err)
    /\ UNCHANGED <<version, header, props, schema, orig>>

\* The loop condition fails: the catalog is returned.
LoopExit ==
    /\ pc = "movies"
    /\ ~loop_condition(rd)
    /\ pc' = "done"
    /\ last' = Step("exit", rd, TRUE, None, FALSE)
    /\ UNCHANGED <<rd, version, header, props, schema, movies, orig>>

\* __exit__ when the "with" block is left, by the return of the catalog or
\* by an exception raised inside it.  A constructor that raised never entered
\* the block.
Exit ==
    /\ pc \in {"done", "fatal"}
    /\ last.op # "construct"
    /\ rd' = close(rd)
    /\ pc' = IF pc = "done" THEN "returned" ELSE "failed"
    /\ last' = Step("close", rd, pc = "done", None, FALSE)
    /\ UNCHANGED <<version, header, props, schema, movies, orig>>

Next ==
    \/ Construct
    \/ ReadProperties
    \/ ReadSchema
    \/ SkipSchema
    \/ ReadMovie
    \/ LoopExit
    \/ Exit

Spec == Init /\ [][Next]_vars

(***************************************************************************)
(* The command-line entry point: main() reads the properties, resets the   *)
(* stream to the start of the payload and then runs the full decode.       *)
(* SpecMain holds both entries: parse_amc_file_optimized (pc = "start")    *)
(* and main (pc = "main").                                                 *)
(***************************************************************************)
MainInit ==
    \/ \E sc \in Scenarios, n \in 0..MaxMovies, pad \in PadBytes,
          start \in {"start", "main"} :
          LET full  == ScenarioFile(sc, n, pad)
              valid == sc.roster \in WellFormedRosters
          IN  \E k \in 0..(IF valid /\ n = 0 THEN Len(full) ELSE 0) :
                 InitWith(SubSeq(full, 1, Len(full) - k), full, k, valid,
                          sc.vtext, start)
    \/ \E f \in CorruptFiles, start \in {"start", "main"} :
          InitWith(f, f, 0, FALSE, <<Digit(4), Dot, Digit(2)>>, start)
    \/ \E o \in OwnerFiles, start \in {"start", "main"} :
          InitWith(OwnerFile(o.vtext, o.ver), OwnerFile(o.vtext, o.ver), 0,
                   FALSE, o.vtext, start)

\* "with AntMovieCatalogReader(args.amc_file, ...) as reader"
MainConstruct ==
    /\ pc = "main"
    /\ LET h == initialize_version_and_header(rd.disk)
       IN  /\ pc' = IF h.ok THEN "mainheader" ELSE "fatal"
           /\ version' = h.version
           /\ header' = h.header
           /\ last' = Step("construct", rd, h.ok, None, ~h.ok)
    /\ UNCHANGED <<rd, props, schema, movies, orig>>

\* "movie_properties = reader.read_movie_properties(reader.version)"
MainReadProperties ==
    /\ pc = "mainheader"
    /\ LET p == read_movie_properties(rd, version)
       IN  /\ rd' = p.rd
           /\ props' = p.val
           /\ pc' = IF p.ok THEN "rewind" ELSE "fatal"
           /\ last' = Step("mainproperties", rd, p.ok, None, ~p.ok)
    /\ UNCHANGED <<version, header, schema, movies, orig>>

\* "reader.file.seek(65); reader.position = 65", then
\* read_full_catalog_sequential is entered.
MainRewind ==
    /\ pc = "rewind"
    /\ rd' = [rd EXCEPT !.fpos = DataStart, !.position = DataStart]
    /\ pc' = "header"
    /\ last' = Step("rewind", rd, TRUE, None, FALSE)
    /\ UNCHANGED <<version, header, props, schema, movies, orig>>

MainNext ==
    \/ MainConstruct
    \/ MainReadProperties
    \/ MainRewind
    \/ Next

SpecMain == MainInit /\ [][MainNext]_vars

(***************************************************************************)
(* The cursor reader on its own: primitive reads in any order, from the    *)
(* payload of a file with a valid header, until one raises                 *)
(***************************************************************************)
\* Payloads of at least HeaderSize - DataStart bytes, holding strings of
\* length 0, 2 and -1, lengths at and over the limit, and pictures of size
\* 2, 0 and -5.
CursorPayloads ==
    {    EncStr(<<65, 66>>) \o EncI32(0) \o EncPicture(StrPath, <<1, 2>>)
      \o EncI32(-1) \o EncI32(MaxStringLength + 1) \o EncI32(MaxStringLength)
      \o <<1, 0, 3>>,
         EncPicture(<<>>, <<>>) \o EncStr(StrA) \o EncI32(-5) \o EncI32(0)
      \o EncI32(3) \o <<7, 8, 9, 0>> \o EncI32(2) \o <<65, 66>> \o EncI32(1)
      \o <<255>> \o EncI32(-1) \o EncI32(0) \o <<2, 0>> }

CursorFile(payload) == EncHeader(<<Digit(4), Dot, Digit(2)>>) \o payload

CursorInit ==
    \E payload \in CursorPayloads :
        InitWith(CursorFile(payload), CursorFile(payload), 0, FALSE,
                 <<Digit(4), Dot, Digit(2)>>, "cursor")

CursorStep(op, arg, res) ==
    /\ rd' = res.rd
    /\ last' = [op |-> op, arg |-> arg, pre |-> rd, ok |-> res.ok,
                val |-> res.val, err |-> ~res.ok]
    /\ pc' = IF res.ok THEN "cursor" ELSE "raised"
    /\ UNCHANGED <<version, header, props, schema, movies, orig>>

CursorReadInt32 == pc = "cursor" /\ CursorStep("int32", 0, read_int32_le(rd))

CursorReadBool == pc = "cursor" /\ CursorStep("bool", 0, read_bool_byte(rd))

CursorReadString ==
    pc = "cursor" /\ CursorStep("string", 0, read_length_prefixed_string(rd))

CursorReadRaw ==
    /\ pc = "cursor"
    /\ \E n \in 0..MaxRaw : CursorStep("raw", n, read_raw_bytes(rd, n))

\* A skip may pass the end of the file; the model stops MaxRaw bytes past it.
CursorSkip ==
    /\ pc = "cursor"
    /\ \E n \in 0..MaxRaw :
          /\ open_file(rd).fpos + n <= Len(rd.disk) + MaxRaw
          /\ CursorStep("skip", n, skip_raw_bytes(rd, n))

CursorReadPicture ==
    pc = "cursor" /\ CursorStep("picture", 0, read_embedded_movie_picture(rd))

CursorNext ==
    \/ CursorReadInt32
    \/ CursorReadBool
    \/ CursorReadString
    \/ CursorReadRaw
    \/ CursorSkip
    \/ CursorReadPicture

SpecCursor == CursorInit /\ [][CursorNext]_vars

(***************************************************************************)
(* Properties of the decode (specification Spec)                           *)
(***************************************************************************)
\* The file decoded is a well-formed file with its last orig.cut bytes removed.
ValidTruncation == orig.valid /\ orig.cut > 0

\* What the file as written decodes to.
Original == parse_amc_file_optimized(orig.bytes)

\* The offset at which the first movie record of a well-formed file starts:
\* the cursor after the properties and the schema.
MovieStart(bytes) ==
    LET Props(p, ver) ==
            IF ver >= 40 THEN read_custom_field_definitions(p.rd, ver).rd.position
            ELSE p.rd.position
        Sniffed(h) == Props(read_movie_properties(NewReader(bytes), h.version), h.version)
    IN  Sniffed(initialize_version_and_header(bytes))

\* The 32-bit value at the handle's position.
Int32At(r) == unpack_i32(SubSeq(r.disk, r.fpos + 1, r.fpos + 4))

Remaining(r) == Len(r.disk) - r.fpos

\* C1: whenever a primitive read fails while read_movie_sequential decodes a
\* record, the call returns None (no record is produced).
C1_FailedReadYieldsNoRecord ==
    (last.op = "movie" /\ last.err) => ~last.ok

\* C2 as claimed: decoding a well-formed file with its last K > 0 bytes
\* removed never raises, whatever K.
C2_TruncationNeverRaises ==
    ValidTruncation => pc # "fatal"

\* C2 as amended: decoding a well-formed file with its last K > 0 bytes
\* removed returns a Catalog when what is left still holds the 100-byte
\* header block, the properties and the schema, and raises otherwise.
C2_TruncationRaisesOnlyBeforeMovies ==
    ValidTruncation =>
        IF Len(rd.disk) >= Max(HeaderSize, MovieStart(orig.bytes))
        THEN pc # "fatal"
        ELSE pc # "done"

\* A truncated file whose last record broke off, decoded to a catalog.
C2_Witness ==
    /\ ValidTruncation
    /\ pc = "done"
    /\ last.op = "movie" /\ last.err
    /\ movies # <<>>

\* C3: the catalog decoded from a truncated well-formed file has no more
\* movies than the catalog decoded from the file as written.
C3_TruncatedHasNoMoreMovies ==
    (ValidTruncation /\ pc = "done") => Len(movies) <= Len(Original.val.movies)

C3_Witness ==
    /\ ValidTruncation
    /\ pc = "done"
    /\ movies # <<>>
    /\ Len(movies) < Len(Original.val.movies)

\* C4: for version >= 40 every decoded movie has as many custom values as
\* the schema has fields, the i-th keyed by the i-th tag.
C4_CustomValuesMatchSchema ==
    version >= 40 =>
        \A i \in 1..Len(movies) :
            /\ Len(movies[i].custom_fields) = Len(schema)
            /\ \A j \in 1..Len(schema) :
                  movies[i].custom_fields[j][1] = schema[j].field_tag

\* The header's version text is <M>.<N>: M digits, N starting with a digit.
MajorDotMinor(vtext) ==
    /\ find_char(vtext, Dot) >= 1
    /\ isdigit(Slice(vtext, 0, find_char(vtext, Dot)))
    /\ Len(vtext) >= find_char(vtext, Dot) + 2
    /\ vtext[find_char(vtext, Dot) + 2] \in 48..57

\* M * 10 + the first digit of N
MajorTimesTenPlusMinor(vtext) ==
    int_of(Slice(vtext, 0, find_char(vtext, Dot))) * 10
        + (vtext[find_char(vtext, Dot) + 2] - 48)

\* C5: a header " AMC_<M>.<N>" gives version M * 10 + first digit of N,
\* whatever the length of M.
C5_VersionIsMajorTimesTenPlusMinor ==
    (pc \notin {"start", "fatal", "cursor", "raised"} /\ MajorDotMinor(orig.vtext))
        => version = MajorTimesTenPlusMinor(orig.vtext)

\* The reader where the extras of the record decoded by the last step begin:
\* after the scalar fields, the picture and the custom values.
BeforeExtras(r, ver, cfp) ==
    LET Pic(p) ==
            IF ~p.ok THEN p
            ELSE IF ver >= 40 /\ cfp # <<>>
            THEN read_movie_custom_field_values(p.rd, cfp)
            ELSE Ok(EmptyDict, p.rd)
        Fields(f) == IF ~f.ok THEN f ELSE Pic(read_embedded_movie_picture(f.rd))
    IN  Fields(ReadFields(r, MovieFields(ver), MovieDefaults))

\* The last step decoded a version >= 42 record whose extras count is
\* outside 0..1000.
BadExtrasCount(b) ==
    /\ b.ok
    /\ Remaining(b.rd) >= 4
    /\ Int32At(b.rd) \notin 0..MaxExtrasCount

\* C7: an extras count outside [0, 1000] gives the movie an empty extras
\* list, costs the 4 bytes of the count and nothing more, and the movie
\* record is still produced.
C7_BadExtrasCountKeepsMovie ==
    (last.op = "movie" /\ version >= 42) =>
        LET Holds(b) ==
                BadExtrasCount(b) =>
                    /\ last.ok
                    /\ last.val[1].extras = <<>>
                    /\ rd.fpos = b.rd.fpos + 4
                    /\ rd.position = b.rd.position + 4
        IN  Holds(BeforeExtras(last.pre, version, schema))

C7_Witness ==
    /\ last.op = "movie"
    /\ version >= 42
    /\ BadExtrasCount(BeforeExtras(last.pre, version, schema))
    /\ Int32At(BeforeExtras(last.pre, version, schema).rd) = MaxExtrasCount + 1
    /\ last.ok

\* The raw rating of the record the last step decoded: the third 32-bit
\* value of the record, the fifth when version >= 42.
RawRating(pre, ver) ==
    Int32At([pre EXCEPT !.fpos = pre.fpos + (IF ver >= 42 THEN 16 ELSE 8)])

\* C8: for version < 35 the rating is 10 times the raw value, except that a
\* raw -1 stays -1; for version >= 35 the rating is the raw value.
C8_RatingScaledBelow35 ==
    (last.op = "movie" /\ last.ok) =>
        LET Holds(raw, rating) ==
                /\ (version < 35 /\ raw # -1) => rating = 10 * raw
                /\ (version < 35 /\ raw = -1) => rating = -1
                /\ version >= 35 => rating = raw
        IN  Holds(RawRating(last.pre, version), last.val[1].rating)

C8_Witness ==
    /\ last.op = "movie" /\ last.ok
    /\ version < 35
    /\ RawRating(last.pre, version) = 7
    /\ last.val[1].rating = 70

\* The minimal version-40 file: the header text, then from offset 65 four
\* empty property strings, two empty schema strings and a field count of 0,
\* and no byte after them.
MinimalFile ==
    /\ orig.cut = 0
    /\ orig.bytes = BareFile(<<Digit(4), Dot, Digit(0)>>)

\* C10: the minimal version-40 file decodes without error to a catalog with
\* an empty schema and an empty movie list.
C10_MinimalFileDecodesEmpty ==
    MinimalFile =>
        /\ pc # "fatal"
        /\ pc = "done" => (version = 40 /\ schema = <<>> /\ movies = <<>>)

(***************************************************************************)
(* Properties of the cursor reader (specification SpecCursor)              *)
(***************************************************************************)
\* The reader the last step started from, its handle open.
Base == open_file(last.pre)

\* C6: read_length_prefixed_string reads a length L; L = 0 gives the empty
\* string and moves the offset by 4; L < 0 or L > 10,000,000 fails with no
\* body byte read; 1 <= L <= 10,000,000 with L bytes left gives L characters
\* and moves the offset by 4 + L.
C6_StringByLength ==
    (last.op = "string" /\ Remaining(Base) >= 4) =>
        LET Holds(L) ==
                /\ L = 0 =>
                      /\ last.ok /\ last.val = <<>>
                      /\ rd.position = Base.position + 4
                      /\ rd.fpos = Base.fpos + 4
                /\ (L < 0 \/ L > MaxStringLength) =>
                      /\ ~last.ok
                      /\ rd.fpos = Base.fpos + 4
                /\ (L >= 1 /\ L <= MaxStringLength /\ Remaining(Base) >= 4 + L) =>
                      /\ last.ok
                      /\ Len(last.val) = L
                      /\ last.val = SubSeq(rd.disk, Base.fpos + 5, Base.fpos + 4 + L)
                      /\ rd.position = Base.position + 4 + L
                      /\ rd.fpos = Base.fpos + 4 + L
        IN  Holds(Int32At(Base))

C6_Witness ==
    /\ last.op = "string"
    /\ last.ok
    /\ Len(last.val) = 2
    /\ rd.position = Base.position + 6

\* C9: once the path and the size are read, the picture decoder returns None
\* and reads nothing more exactly when size <= 0; when size > 0 the Picture
\* it returns holds exactly the next size bytes.
C9_PictureBySize ==
    last.op = "picture" =>
        LET Holds(p) ==
                (p.ok /\ Remaining(p.rd) >= 4) =>
                    /\ rd.fpos >= p.rd.fpos + 4
                    /\ Int32At(p.rd) <= 0 =>
                          /\ last.ok /\ last.val = None
                          /\ rd.fpos = p.rd.fpos + 4
                          /\ rd.position = p.rd.position + 4
                    /\ (Int32At(p.rd) > 0 /\ last.ok) =>
                          /\ last.val # None
                          /\ last.val[1].pic_path = p.val
                          /\ Len(last.val[1].pic_data) = Int32At(p.rd)
                          /\ last.val[1].pic_data =
                                SubSeq(rd.disk, p.rd.fpos + 5,
                                       p.rd.fpos + 4 + Int32At(p.rd))
                          /\ rd.position = p.rd.position + 4 + Int32At(p.rd)
                    /\ (Int32At(p.rd) > 0 /\ Remaining(p.rd) >= 4 + Int32At(p.rd)) =>
                          last.ok
                    /\ (last.ok /\ last.val # None) =>
                          /\ Int32At(p.rd) > 0
                          /\ last.val[1].pic_data # <<>>
        IN  Holds(read_length_prefixed_string(Base))

C9_Witness ==
    /\ last.op = "picture"
    /\ last.ok
    /\ last.val # None
    /\ last.val[1].pic_data = <<1, 2>>

(***************************************************************************)
(* Properties of the reader's construction and of its handle (Spec)        *)
(***************************************************************************)
\* The file does not start with " AMC_", or has fewer than 100 bytes.
BadHeaderBlock ==
    \/ Len(rd.disk) < HeaderSize
    \/ SubSeq(rd.disk, 1, Len(Signature)) # Signature

\* C11: when the first 100 bytes do not start with " AMC_", or the file has
\* fewer than 100 bytes, constructing the reader fails before the stream is
\* opened: no property, schema or movie is read and no catalog is produced.
C11_BadHeaderIsFatalBeforeOpen ==
    (BadHeaderBlock /\ pc # "start") =>
        /\ pc = "fatal"
        /\ last.op = "construct" /\ ~last.ok
        /\ ~rd.fh /\ rd.fpos = 0
        /\ props = <<>> /\ schema = <<>> /\ movies = <<>>

C11_Witness ==
    /\ pc = "fatal"
    /\ last.op = "construct"
    /\ Len(rd.disk) >= HeaderSize
    /\ SubSeq(rd.disk, 1, Len(Signature)) # Signature
    /\ \E i \in 1..Len(Signature) : rd.disk[i + 1] # 0

\* C12: the handle is opened by the first primitive read and not before, and
\* it is closed once the "with" block is left: after a returned catalog
\* (whether or not a record was aborted) and after a fatal error in the
\* properties or the schema.
C12_HandleOpenedLazilyAndClosed ==
    /\ pc \in {"start", "header"} => ~rd.fh
    /\ last.op = "construct" => ~rd.fh
    /\ last.op = "properties" => (~last.pre.fh /\ rd.fh)
    /\ pc \in {"returned", "failed"} => ~rd.fh

C12_Witness ==
    /\ pc = "failed"
    /\ last.op = "close"
    /\ last.pre.fh
    /\ ~rd.fh

(***************************************************************************)
(* Properties of the cursor reader's offset (SpecCursor)                   *)
(***************************************************************************)
\* C13: after every cursor operation, succeeded or failed, the tracked
\* offset equals the stream's real read position.
C13_OffsetIsStreamPosition ==
    (pc \in {"cursor", "raised"} /\ rd.fh) => rd.position = rd.fpos

(***************************************************************************)
(* Properties of the order of the decode (SpecMain)                        *)
(***************************************************************************)
\* The values of the primitive reads `kinds`, made one after the other.
RECURSIVE ReadLayout(_, _, _)
ReadLayout(r, kinds, acc) ==
    LET Got(v) ==
            IF ~v.ok THEN Raise(v.rd)
            ELSE ReadLayout(v.rd, Tail(kinds), Append(acc, v.val))
    IN  IF kinds = <<>> THEN Ok(acc, r) ELSE Got(ReadPrim(r, Head(kinds)))

Repeat(n, kind) == [i \in 1..n |-> kind]

\* The properties read by the last step are owner name, owner mail, a
\* discarded string when version < 35, owner site and description, read in
\* that order from where the step started.
PropertiesInOrder ==
    LET Holds(l) ==
            /\ l.ok
            /\ rd.position = l.rd.position
            /\ props.owner_name = l.val[1]
            /\ props.owner_mail = l.val[2]
            /\ props.owner_site = l.val[Len(l.val) - 1]
            /\ props.description = l.val[Len(l.val)]
    IN  Holds(ReadLayout(open_file(last.pre),
                         Repeat(IF version < 35 THEN 5 ELSE 4, "str"), <<>>))

\* The phase a step belongs to: header, properties, schema, movie loop, done.
Phase(op) ==
    CASE op = "none" -> 0
      [] op = "construct" -> 1
      [] op \in {"properties", "mainproperties", "rewind"} -> 2
      [] op \in {"schema", "noschema"} -> 3
      [] op = "movie" -> 4
      [] op \in {"exit", "close"} -> 5

\* The order of the steps when main's own properties read and its reset of
\* the stream are counted as steps before the decode's properties phase.
StepRank(op) ==
    CASE op = "none" -> 0
      [] op = "construct" -> 1
      [] op = "mainproperties" -> 2
      [] op = "rewind" -> 3
      [] op = "properties" -> 4
      [] op \in {"schema", "noschema"} -> 5
      [] op = "movie" -> 6
      [] op = "exit" -> 7
      [] op = "close" -> 8

\* What both statements of C14 share: the schema phase is a schema read
\* exactly when version >= 40, and the properties are read in their order.
\* It is stated of the state a step starts from; every state reached by a
\* properties or schema step has a step after it.
SchemaGateAndPropertiesOrder ==
    /\ last.op = "schema" => version >= 40
    /\ last.op = "noschema" => version < 40
    /\ (last.op \in {"properties", "mainproperties"} /\ last.ok) => PropertiesInOrder

C15_LoopStopsAtFirstNoRecord ==
    [][ /\ last'.op = "movie" =>
              /\ pc = "movies"
              /\ rd.position < rd.file_size
              /\ IF last'.ok
                 THEN /\ movies' = Append(movies, last'.val[1])
                      /\ last'.val[1].number = Int32At(rd)
                      /\ pc' = "movies"
                 ELSE /\ movies' = movies
                      /\ pc' = "done"
        /\ last'.op = "exit" =>
              /\ pc = "movies"
              /\ rd.position >= rd.file_size
              /\ movies' = movies
              /\ pc' = "done"
        /\ pc = "movies" => pc' \in {"movies", "done"}
        /\ pc = "done" => (last'.op = "close" /\ movies' = movies) ]_vars

\* The loop ended on an attempt that yielded no record, after a record.
C15_Witness ==
    /\ pc = "done"
    /\ last.op = "movie" /\ ~last.ok
    /\ last.pre.position < last.pre.file_size
    /\ Len(movies) >= 1

(***************************************************************************)
(* The layout of the schema as the format gives it, read with the          *)
(* primitive reads alone                                                   *)
(***************************************************************************)
\* One field definition up to its last string: tag, name, (version >= 41)
\* extension, type, default, (version >= 41) media info, a flag, (version
\* >= 41) 4 raw bytes and two flags, a flag, a string.
FieldLayout(ver) ==
    IF ver >= 41
    THEN <<"str", "str", "str", "str", "str", "str", "bool", "raw4", "bool",
           "bool", "bool", "str">>
    ELSE <<"str", "str", "str", "str", "bool", "bool", "str">>

\* What follows a field of type "ftList": that many strings and, for version
\* >= 41, four flags.
ListLayout(ver, count) ==
    Repeat(IF count > 0 THEN count ELSE 0, "str")
        \o (IF ver >= 41 THEN Repeat(4, "bool") ELSE <<>>)

\* The definition a field's values give: tag, name, type, default.
FieldOf(ver, v) ==
    [field_tag     |-> v[1],
     field_name    |-> v[2],
     field_type    |-> v[IF ver >= 41 THEN 4 ELSE 3],
     default_value |-> v[IF ver >= 41 THEN 5 ELSE 4]]

RECURSIVE FieldsLayout(_, _, _, _)
FieldsLayout(r, ver, n, acc) ==
    LET Listed(l, fd) ==
            IF ~l.ok THEN Raise(l.rd)
            ELSE FieldsLayout(l.rd, ver, n - 1, Append(acc, fd))
        Counted(c, fd) ==
            IF ~c.ok THEN Raise(c.rd)
            ELSE Listed(ReadLayout(c.rd, ListLayout(ver, c.val), <<>>), fd)
        Field(f) ==
            IF ~f.ok THEN Raise(f.rd)
            ELSE IF FieldOf(ver, f.val).field_type = <<102, 116, 76, 105, 115, 116>>
            THEN Counted(read_int32_le(f.rd), FieldOf(ver, f.val))
            ELSE FieldsLayout(f.rd, ver, n - 1, Append(acc, FieldOf(ver, f.val)))
    IN  IF n <= 0 THEN Ok(acc, r)
        ELSE Field(ReadLayout(r, FieldLayout(ver), <<>>))

\* Two strings, the field count N, then N fields.
SchemaLayout(r, ver) ==
    LET Head_(h) ==
            IF ~h.ok THEN Raise(h.rd) ELSE FieldsLayout(h.rd, ver, h.val[3], <<>>)
    IN  Head_(ReadLayout(r, <<"str", "str", "i32">>, <<>>))

\* The field count of the schema the last step read.
SchemaCount(r) == ReadLayout(r, <<"str", "str", "i32">>, <<>>).val[3]

(***************************************************************************)
(* Properties of failures outside the movie loop (Spec)                    *)
(***************************************************************************)
\* The properties the last step set out to read cannot be read: a string
\* length is negative or over the limit, or the file ends in them.
PropertiesBroken ==
    /\ last.op = "properties"
    /\ ~ReadLayout(open_file(last.pre),
                   Repeat(IF version < 35 THEN 5 ELSE 4, "str"), <<>>).ok

\* The same of the schema.
SchemaBroken ==
    /\ last.op = "schema"
    /\ ~SchemaLayout(last.pre, version).ok

\* C16: a read failure in the properties or in the schema is fatal: it
\* leaves read_full_catalog_sequential as an exception, no catalog is
\* returned and the movie loop is not entered; the same failure inside a
\* movie record is not fatal.
C16_FailureBeforeMoviesIsFatal ==
    /\ (PropertiesBroken \/ SchemaBroken) =>
          (pc = "fatal" /\ ~last.ok /\ movies = <<>>)
    /\ pc \in {"fatal", "failed"} =>
          /\ movies = <<>>
          /\ last.op \in {"construct", "properties", "schema", "close"}
    /\ (last.op = "movie" /\ last.err) => pc \in {"movies", "done"}

\* The schema read failed on a name longer than the limit.
C16_Witness ==
    /\ pc = "fatal"
    /\ SchemaBroken
    /\ orig.bytes \in CorruptFiles
    /\ Remaining(rd) > 0

(***************************************************************************)
(* Properties of the layout of a movie record (Spec)                       *)
(***************************************************************************)
\* 1 when the gate holds, 0 otherwise
Gate(b) == IF b THEN 1 ELSE 0

\* The int32 values and the strings read before the picture.
IntCount(ver) == 8 + 2 * Gate(ver >= 42) + Gate(ver >= 41)

StringCount(ver) == 19 + 2 * Gate(ver >= 33) + 4 * Gate(ver >= 42)

\* The record before its picture: the int32 values, one boolean, the strings.
ScalarLayout(ver) ==
    Repeat(IntCount(ver), "i32") \o <<"bool">> \o Repeat(StringCount(ver), "str")

\* The movie m holds the values v read by ScalarLayout, each gated field from
\* its place in the sequence when its gate holds and its default otherwise.
GatedFieldsFrom(m, v, ver) ==
    LET S(k) == v[IntCount(ver) + 1 + k]
        o == 2 * Gate(ver >= 33)
        w == 2 * Gate(ver >= 42)
        c == Gate(ver >= 42)
    IN  /\ m.number = v[1]
        /\ m.date_added = v[2]
        /\ m.date_watched = (IF ver >= 42 THEN v[3] ELSE 0)
        /\ m.user_rating = (IF ver >= 42 THEN v[4] ELSE 0)
        /\ m.disks = v[8 + 2 * Gate(ver >= 42)]
        /\ IF ver >= 41 THEN (v[IntCount(ver)] - m.color_tag) % 13 = 0
           ELSE m.color_tag = 0
        /\ m.checked = v[IntCount(ver) + 1]
        /\ m.media = S(1)
        /\ m.media_type = (IF ver >= 33 THEN S(2) ELSE <<>>)
        /\ m.source = (IF ver >= 33 THEN S(3) ELSE <<>>)
        /\ m.borrower = S(2 + o)
        /\ m.original_title = S(3 + o)
        /\ m.producer = S(6 + o)
        /\ m.writer = (IF ver >= 42 THEN S(7 + o) ELSE <<>>)
        /\ m.composer = (IF ver >= 42 THEN S(8 + o) ELSE <<>>)
        /\ m.country = S(7 + o + w)
        /\ m.certification = (IF ver >= 42 THEN S(9 + o + w) ELSE <<>>)
        /\ m.actors = S(9 + o + w + c)
        /\ m.file_path = (IF ver >= 42 THEN S(13 + o + w + c) ELSE <<>>)
        /\ m.video_format = S(13 + o + w + 2 * c)
        /\ m.size = S(19 + o + w + 2 * c)

\* C17: a decoded record has read, before its picture, exactly 8 +
\* 2*[version >= 42] + [version >= 41] int32 values, one boolean and 19 +
\* 2*[version >= 33] + 4*[version >= 42] strings; each gated field holds the
\* value at its place when its gate holds and its default otherwise; custom
\* values are read iff version >= 40 and the schema is not empty, extras iff
\* version >= 42; and nothing else is read.
C17_GatedFieldsReadIffGate ==
    (last.op = "movie" /\ last.ok) =>
        LET Tail_(x, m) ==
                /\ rd = x.rd
                /\ version < 42 => m.extras = <<>>
            Custom(cv, m) ==
                /\ cv.ok
                /\ (version < 40 \/ schema = <<>>) => m.custom_fields = EmptyDict
                /\ Tail_(IF version >= 42 THEN read_movie_extras(cv.rd) ELSE cv, m)
            Picture(p, m) ==
                /\ p.ok
                /\ m.picture = p.val
                /\ Custom(ReadLayout(p.rd,
                                     Repeat(IF version >= 40 THEN Len(schema) ELSE 0,
                                            "str"), <<>>), m)
            Scalars(l, m) ==
                /\ l.ok
                /\ GatedFieldsFrom(m, l.val, version)
                /\ Picture(read_embedded_movie_picture(l.rd), m)
        IN  Scalars(ReadLayout(last.pre, ScalarLayout(version), <<>>), last.val[1])

\* A version 3.2 record (no media type, no source) and a version 4.2 record
\* with its writer and file path, both decoded.
C17_Witness ==
    /\ last.op = "movie" /\ last.ok
    /\ version = 42
    /\ last.val[1].writer = StrB
    /\ last.val[1].file_path = StrPath
    /\ last.val[1].user_rating = 5
    /\ last.val[1].extras # <<>>
    /\ last.val[1].custom_fields # EmptyDict

\* The raw colour tag of the record the last step decoded: the int32 after
\* the 8 (version >= 42: 10) before it.
RawColorTag(pre, ver) ==
    Int32At([pre EXCEPT !.fpos = pre.fpos + 4 * (8 + 2 * Gate(ver >= 42))])

\* C18: for version >= 41 the colour tag of a decoded movie is the raw value
\* modulo 13, in 0..12 also when the raw value is negative; for version < 41
\* it is 0.
C18_ColorTagModulo13 ==
    (last.op = "movie" /\ last.ok) =>
        IF version >= 41
        THEN /\ last.val[1].color_tag \in 0..12
             /\ (RawColorTag(last.pre, version) - last.val[1].color_tag) % 13 = 0
        ELSE last.val[1].color_tag = 0

\* A raw colour tag of -2 gave 11.
C18_Witness ==
    /\ last.op = "movie" /\ last.ok
    /\ version >= 41
    /\ RawColorTag(last.pre, version) = -2
    /\ last.val[1].color_tag = 11

(***************************************************************************)
(* Properties of the schema decoder (Spec)                                 *)
(***************************************************************************)
\* C19: for a field count N >= 0 the schema decoder returns N definitions in
\* stream order, each with the tag, name, type and default read for it, and
\* reads per field exactly the field's layout - the list block only for the
\* type "ftList" - so that each field starts where the one before it ends.
C19_SchemaFieldsInStreamOrder ==
    last.op = "schema" =>
        LET Holds(l) ==
                (l.ok /\ SchemaCount(last.pre) >= 0) =>
                    /\ last.ok
                    /\ Len(schema) = SchemaCount(last.pre)
                    /\ \A i \in 1..Len(schema) :
                          /\ schema[i].field_tag = l.val[i].field_tag
                          /\ schema[i].field_name = l.val[i].field_name
                          /\ schema[i].field_type = l.val[i].field_type
                          /\ schema[i].default_value = l.val[i].default_value
                    /\ rd.position = l.rd.position
                    /\ rd.fpos = l.rd.fpos
        IN  Holds(SchemaLayout(last.pre, version))

\* Three fields decoded: one of type "ftlist", which has no list block, and
\* two lists.
C19_Witness ==
    /\ last.op = "schema" /\ last.ok
    /\ Len(schema) = 3
    /\ schema[1].field_type = lower(FtList)
    /\ schema[2].field_type = FtList
    /\ schema[3].field_tag = StrPath

(***************************************************************************)
(* Properties of the movie loop after a failed read (Spec)                 *)
(***************************************************************************)
\* C20: once a primitive read has failed in the movie loop, no record whose
\* decode starts after the failure is appended to the catalog.
C20_NoRecordAfterFailedRead ==
    [][ (last.op = "movie" /\ last.err) => movies' = movies ]_vars

(***************************************************************************)
(* Properties of the counts of the schema (Spec)                           *)
(***************************************************************************)
\* The schema's two strings and field count, then the first field and the
\* int32 after it (its list-value count when its type is "ftList").
FirstFieldAndCount(r, ver) ==
    ReadLayout(r, <<"str", "str", "i32">> \o FieldLayout(ver) \o <<"i32">>, <<>>)

\* The schema the last step read announces one field, of type "ftList",
\* and the field and its list-value count can be read.
OneListField ==
    /\ last.op = "schema"
    /\ FirstFieldAndCount(last.pre, version).ok
    /\ SchemaCount(last.pre) = 1
    /\ FieldOf(version, SubSeq(FirstFieldAndCount(last.pre, version).val, 4,
                               3 + Len(FieldLayout(version)))).field_type
          = <<102, 116, 76, 105, 115, 116>>

ListValueCount ==
    FirstFieldAndCount(last.pre, version).val[4 + Len(FieldLayout(version))]

\* C22: the schema's field count and a list field's value count have no
\* range guard.  A negative count is taken for zero: nothing is read for
\* it, no error is raised and the decode goes on at the next byte.  A
\* positive count, however large, is followed until its fields or values
\* are read, or a read fails.
C22_CountsHaveNoRangeGuard ==
    last.op = "schema" =>
        LET Head_(h) ==
                h.ok =>
                    /\ h.val[3] < 0 =>
                          /\ last.ok
                          /\ schema = <<>>
                          /\ rd.position = h.rd.position
                          /\ rd.fpos = h.rd.fpos
                    /\ h.val[3] > 0 =>
                          \/ last.ok /\ Len(schema) = h.val[3]
                          \/ ~last.ok /\ ~SchemaLayout(last.pre, version).ok
            Flags(f, g) ==
                /\ ListValueCount < 0 =>
                      /\ last.ok <=> g.ok
                      /\ last.ok =>
                            /\ Len(schema) = 1
                            /\ rd.position
                                  = f.rd.position + (IF version >= 41 THEN 4 ELSE 0)
                            /\ rd.fpos = rd.position
                /\ ListValueCount > 0 =>
                      \/ last.ok /\ Len(schema) = 1
                      \/ /\ ~last.ok
                         /\ ~ReadLayout(f.rd, Repeat(ListValueCount, "str"), <<>>).ok
            List(f) ==
                OneListField =>
                    Flags(f, ReadLayout(f.rd, IF version >= 41
                                              THEN Repeat(4, "bool") ELSE <<>>, <<>>))
        IN  /\ Head_(ReadLayout(last.pre, <<"str", "str", "i32">>, <<>>))
            /\ List(FirstFieldAndCount(last.pre, version))

\* A schema of one list field whose value count is negative was decoded,
\* in a version with list flags.
C22_Witness ==
    /\ OneListField
    /\ ListValueCount < 0
    /\ version >= 41
    /\ last.ok
    /\ Len(schema) = 1

(***************************************************************************)
(* Termination of the decode (Spec)                                        *)
(*                                                                         *)
(* Every statement of the decode is one step of Spec, so the decode stops  *)
(* if no behaviour of Spec has infinitely many steps: each step must raise *)
(* a measure that is bounded by the length of the file.                    *)
(***************************************************************************)
\* How far the decode has come: its phase first, the offset within the
\* movie loop second.
PhaseRank ==
    CASE pc = "start"                  -> 0
      [] pc = "header"                 -> 1
      [] pc = "props"                  -> 2
      [] pc = "movies"                 -> 3
      [] pc \in {"done", "fatal"}      -> 4
      [] pc \in {"returned", "failed"} -> 5

Measure ==
    PhaseRank * (Len(rd.disk) + 1) + (IF pc = "movies" THEN rd.position ELSE 0)

\* A count-driven loop whose count is larger than the number of bytes left
\* fails, and a loop that ends has read at least one byte per pass -
\* schema fields, list values, extras.
CountLoopsEndOrFail ==
    /\ last.op = "schema" =>
          LET Head_(h) ==
                  h.ok =>
                      /\ h.val[3] > Remaining(h.rd) => ~last.ok
                      /\ last.ok => Len(schema) <= rd.fpos - h.rd.fpos
          IN  Head_(ReadLayout(last.pre, <<"str", "str", "i32">>, <<>>))
    /\ OneListField =>
          LET List(f) ==
                  /\ ListValueCount > Remaining(f.rd) => ~last.ok
                  /\ (last.ok /\ ListValueCount > 0) =>
                        ListValueCount <= rd.fpos - f.rd.fpos
          IN  List(FirstFieldAndCount(last.pre, version))
    /\ (last.op = "movie" /\ version >= 42) =>
          LET Extras_(b) ==
                  (b.ok /\ Remaining(b.rd) >= 4) =>
                      /\ last.ok
                      /\ Len(last.val[1].extras) <= rd.fpos - (b.rd.fpos + 4)
                      /\ (/\ Int32At(b.rd) \in 1..MaxExtrasCount
                          /\ Int32At(b.rd) > Remaining(b.rd) - 4) =>
                            /\ last.err
                            /\ Len(last.val[1].extras) < Int32At(b.rd)
          IN  Extras_(BeforeExtras(last.pre, version, schema))

\* C21: on a file with a valid header read_full_catalog_sequential
\* terminates, with a catalog or an exception: every pass of the movie loop
\* that decodes a record moves the offset forward, the loop makes at most
\* (file length - 65) passes, and every count-driven loop ends or fails.
C21_DecodeTerminates ==
    /\ [][ Measure' > Measure ]_vars
    /\ [][ (last'.op = "movie" /\ last'.ok) => rd'.position > rd.position ]_vars
    /\ [](/\ Measure <= 5 * (Len(rd.disk) + 1)
          /\ rd.position <= Len(rd.disk))
    /\ [](last.op = "movie" =>
              Len(movies) + Gate(~last.ok) <= rd.file_size - DataStart)
    /\ []CountLoopsEndOrFail

\* The loop decoded two records and ended.
C21_Witness ==
    /\ pc = "done"
    /\ Len(movies) >= 2
    /\ rd.file_size > DataStart

====
